---- MODULE Spec2Model ----
(***************************************************************************)
(* A model of the repolinter engine: lint (loading and validating the     *)
(* configuration), parseConfig, determineTargets (axiom resolution),       *)
(* runRuleset (rule / fix dispatch) and the verdict of lint.               *)
(*                                                                         *)
(* JavaScript values are records of their own properties; `undefined`,     *)
(* `null` and primitive strings used as thrown values are tagged records.  *)
(* An async callback is a small state machine: it runs synchronously to    *)
(* its first `await`, and each later step is the continuation that runs    *)
(* when the awaited plugin settles.                                        *)
(***************************************************************************)
EXTENDS Naturals, Sequences, FiniteSets, TLC

\* Largest number of rules in a ruleset.
MaxRules == 2
\* Largest number of entries of the axiom map explored by SpecTargets, and of
\* the axiom configuration explored by SpecAxioms.
MaxAxioms == 2
\* Largest number of entries of a `rules` object, and of a condition group,
\* explored by SpecParse.
MaxEntries == 2

(***************************************************************************)
(* JavaScript values                                                       *)
(***************************************************************************)
Undefined == [js |-> "undefined"]
Null == [js |-> "null"]

IsNullish(v) == v = Undefined \/ v = Null

\* `new TypeError(...)` raised by reading property p of undefined / null.
TypeErrorReading(v, p) ==
  [name |-> "TypeError",
   message |-> "Cannot read property '" \o p \o "' of " \o v.js]

\* `!!v[p]` for a boolean property of an object (absent: undefined, falsy).
Truthy(v, p) == p \in DOMAIN v /\ v[p] = TRUE

\* `!!v[p]` for a string property of an object.
TruthyStr(v, p) == p \in DOMAIN v /\ v[p] # ""

\* `${v[p]}` inside a template literal, v not nullish.
Template(v, p) == IF p \in DOMAIN v THEN v[p] ELSE "undefined"

RECURSIVE Join(_, _)
\* Array.prototype.join
Join(arr, sep) ==
  IF Len(arr) = 0 THEN ""
  ELSE IF Len(arr) = 1 THEN arr[1]
  ELSE arr[1] \o sep \o Join(Tail(arr), sep)

RECURSIVE Flatten(_)
\* arrays.reduce((a, c) => a.concat(c), [])
Flatten(arrs) ==
  IF Len(arrs) = 0 THEN <<>> ELSE Head(arrs) \o Flatten(Tail(arrs))

\* Array.prototype.find(...) !== undefined, for an array of strings
Includes(arr, x) == \E k \in 1..Len(arr) : arr[k] = x

(***************************************************************************)
(* Result and FormatResult (lib/result, lib/formatresult)                  *)
(***************************************************************************)
Result(message, targets, passed) ==
  [message |-> message, targets |-> targets, passed |-> passed]

CreateIgnored(r, message) ==
  [status |-> "IGNORED", ruleInfo |-> r, runMessage |-> message]

CreateError(r, message) ==
  [status |-> "ERROR", ruleInfo |-> r, runMessage |-> message]

CreateLintOnly(r, result) ==
  [status |-> "LINT_ONLY", ruleInfo |-> r, lintResult |-> result]

CreateLintAndFix(r, result, fixresult) ==
  [status |-> "LINT_AND_FIX", ruleInfo |-> r, lintResult |-> result,
   fixResult |-> fixresult]

(***************************************************************************)
(* Plugin registries                                                       *)
(***************************************************************************)
\* The keys of the object loadRules() returns.
allRules == {"file-contents", "file-existence"}
\* The keys of the object loadFixes() returns.
allFixes == {"file-create"}

(***************************************************************************)
(* runRuleset: pure parts                                                  *)
(***************************************************************************)
\* One entry [axiomId, res] of Object.entries(targets) turned into its tokens.
EntryTokens(entry) ==
  LET paths == [k \in 1..Len(entry[2].targets) |-> entry[2].targets[k].path]
  IN <<entry[1] \o "=*">> \o
       [k \in 1..Len(paths) |-> entry[1] \o "=" \o paths[k]]

\* Faulty variant: the entries are not filtered by res.passed.
TargetArrayOfEveryEntry(targets) ==
  IF targets.type # "boolean"
  THEN Flatten([k \in 1..Len(targets.entries) |->
                  EntryTokens(targets.entries[k])])
  ELSE <<>>

\* The flat array of axiom string identifiers.
TargetArray(targets) ==
  IF targets.type # "boolean"
  THEN LET passed == SelectSeq(targets.entries, LAMBDA e : e[2].passed)
       IN Flatten([k \in 1..Len(passed) |-> EntryTokens(passed[k])])
  ELSE <<>>

\* Faulty variant: the level is never looked at.
IsOffNever(r) == FALSE

IsOff(r) == r.level = "off"

\* Faulty variant: one unsatisfied condition makes every condition a reason.
IgnoreReasonsWholeWhere(r, targetArray) ==
  IF \E k \in 1..Len(r.where) : ~Includes(targetArray, r.where[k])
  THEN r.where ELSE <<>>

\* r.where.filter(check => !targetArray.find(tar => check === tar))
IgnoreReasons(r, targetArray) ==
  SelectSeq(r.where, LAMBDA check : ~Includes(targetArray, check))

IgnoredMessage(ignoreReasons) ==
  "ignored due to unsatisfied condition(s): \"" \o
    Join(ignoreReasons, "\", \"") \o "\""

HasRule(r) == r.ruleType \in allRules

\* `!r.fixType` negated
HasFixType(r) == TruthyStr(r, "fixType")

HasFix(r) == r.fixType \in allFixes

\* Faulty variant: the registry is looked at before the conditions.
StartRuleRegistryFirst(r, targets, targetArray) ==
  IF IsOff(r)
  THEN [kind |-> "fulfilled",
        value |-> CreateIgnored(r, "ignored because level is \"off\"")]
  ELSE IF ~HasRule(r)
  THEN [kind |-> "fulfilled",
        value |-> CreateError(r, r.ruleType \o " is not a valid rule")]
  ELSE IF targets.type # "boolean" /\ Len(IgnoreReasons(r, targetArray)) > 0
  THEN [kind |-> "fulfilled",
        value |-> CreateIgnored(r, IgnoredMessage(IgnoreReasons(r, targetArray)))]
  ELSE [kind |-> "awaitRule", call |-> [options |-> r.ruleConfig]]

\* The callback of ruleset.map up to its first await: either the promise is
\* already fulfilled with a FormatResult, or the rule plugin has been invoked.
StartRule(r, targets, targetArray) ==
  IF IsOff(r)
  THEN [kind |-> "fulfilled",
        value |-> CreateIgnored(r, "ignored because level is \"off\"")]
  ELSE IF targets.type # "boolean" /\ Len(IgnoreReasons(r, targetArray)) > 0
  THEN [kind |-> "fulfilled",
        value |-> CreateIgnored(r, IgnoredMessage(IgnoreReasons(r, targetArray)))]
  ELSE IF ~HasRule(r)
  THEN [kind |-> "fulfilled",
        value |-> CreateError(r, r.ruleType \o " is not a valid rule")]
  ELSE [kind |-> "awaitRule", call |-> [options |-> r.ruleConfig]]

\* The catch clause of a plugin invocation: e is the thrown value.
Catch(r, type, e) ==
  IF IsNullish(e)
  THEN [kind |-> "rejected", reason |-> TypeErrorReading(e, "message")]
  ELSE [kind |-> "fulfilled",
        value |-> CreateError(r, type \o " threw an error: " \o Template(e, "message"))]

\* Faulty variant: the targets are not filtered by their own verdict.
FailedPathsOfEveryTarget(result) ==
  LET kept == SelectSeq(result.targets, LAMBDA t : TruthyStr(t, "path"))
  IN [k \in 1..Len(kept) |-> kept[k].path]

\* result.targets.filter(t => !t.passed && t.path).map(t => t.path)
FailedPaths(result) ==
  LET kept == SelectSeq(result.targets,
                        LAMBDA t : ~Truthy(t, "passed") /\ TruthyStr(t, "path"))
  IN [k \in 1..Len(kept) |-> kept[k].path]

\* Faulty variant: a passing rule with a fixType still goes on to its fix.
NoFixNeededWithoutFixOnly(r, result) == ~HasFixType(r)

\* "if there's no fix or the rule passed, we're done"
NoFixNeeded(r, result) == ~HasFixType(r) \/ Truthy(result, "passed")

\* Faulty variant: the catch does not return, and a rule that threw goes on
\* to its fix as a rule that failed.
AfterRuleFixingAfterThrow(r, out, dryRun) ==
  LET result == IF out.how = "throw" THEN Result("", <<>>, FALSE)
                ELSE out.value IN
    IF IsNullish(result)
    THEN [kind |-> "rejected", reason |-> TypeErrorReading(result, "passed")]
    ELSE IF ~Truthy(result, "passed") /\ "targets" \notin DOMAIN result
    THEN [kind |-> "rejected", reason |-> TypeErrorReading(Undefined, "filter")]
    ELSE IF NoFixNeeded(r, result)
    THEN [kind |-> "fulfilled", value |-> CreateLintOnly(r, result)]
    ELSE IF ~HasFix(r)
    THEN [kind |-> "fulfilled",
          value |-> CreateError(r, r.fixType \o " is not a valid fix")]
    ELSE [kind |-> "awaitFix", result |-> result,
          call |-> [options |-> r.fixConfig,
                    targets |-> IF ~Truthy(result, "passed")
                                THEN FailedPaths(result) ELSE <<>>,
                    dryRun |-> dryRun]]

\* The continuation after `await ruleFunc(...)`: out is how the plugin settled.
AfterRule(r, out, dryRun) ==
  IF out.how = "throw" THEN Catch(r, r.ruleType, out.value)
  ELSE LET result == out.value IN
    IF IsNullish(result)
    THEN [kind |-> "rejected", reason |-> TypeErrorReading(result, "passed")]
    ELSE IF ~Truthy(result, "passed") /\ "targets" \notin DOMAIN result
    THEN [kind |-> "rejected", reason |-> TypeErrorReading(Undefined, "filter")]
    ELSE LET fixTargets == IF ~Truthy(result, "passed")
                           THEN FailedPaths(result) ELSE <<>> IN
      IF NoFixNeeded(r, result)
      THEN [kind |-> "fulfilled", value |-> CreateLintOnly(r, result)]
      ELSE IF ~HasFix(r)
      THEN [kind |-> "fulfilled",
            value |-> CreateError(r, r.fixType \o " is not a valid fix")]
      ELSE [kind |-> "awaitFix", result |-> result,
            call |-> [options |-> r.fixConfig, targets |-> fixTargets,
                      dryRun |-> dryRun]]

\* The continuation after `await fixFunc(...)`.
AfterFix(r, result, out) ==
  IF out.how = "throw" THEN Catch(r, r.fixType, out.value)
  ELSE [kind |-> "fulfilled", value |-> CreateLintAndFix(r, result, out.value)]

\* Faulty variant: the values appended as the promises settle.
PromiseAllValuesByCompletion(promises, order) ==
  [k \in 1..Len(promises) |-> promises[order[k]].value]

\* The value Promise.all fulfils with: the promises' values, by index.
PromiseAllValues(promises, order) ==
  [i \in 1..Len(promises) |-> promises[i].value]

\* The reason Promise.all rejects with: that of the first promise to reject.
PromiseAllReason(promises, order) ==
  LET k == CHOOSE k \in 1..Len(order) :
             /\ promises[order[k]].kind = "rejected"
             /\ \A j \in 1..(k - 1) : promises[order[j]].kind # "rejected"
  IN promises[order[k]].reason

(***************************************************************************)
(* lint: the verdict                                                       *)
(***************************************************************************)
\* Faulty variant: the level of a failed rule is not looked at.
FailingAtAnyLevel(r) ==
  \/ r.status = "ERROR"
  \/ /\ r.status # "IGNORED"
     /\ ~Truthy(r.lintResult, "passed")

\* Faulty variant: only ERROR results count.
FailingOnErrorOnly(r) == r.status = "ERROR"

\* The predicate of result.find(...) in lint.
Failing(r) ==
  \/ r.status = "ERROR"
  \/ /\ r.status # "IGNORED"
     /\ r.ruleInfo.level = "error"
     /\ ~Truthy(r.lintResult, "passed")

\* const passed = !result.find(...)
Passed(result) == ~ \E i \in 1..Len(result) : Failing(result[i])

(***************************************************************************)
(* parseConfig                                                             *)
(***************************************************************************)
\* An object is the sequence of its <<key, value>> properties in the order of
\* their creation, keys distinct; {} is the empty sequence.
EmptyObject == <<>>

\* The keys that are array indices, each at the position of its number + 1.
ArrayIndexKeys == <<"0", "1", "2", "3">>

IsArrayIndex(key) == \E n \in 1..Len(ArrayIndexKeys) : ArrayIndexKeys[n] = key

\* Object.entries: the array index keys in ascending numeric order, then the
\* other keys in the order of their creation.
ObjectEntries(obj) ==
  Flatten([n \in 1..Len(ArrayIndexKeys) |->
             Flatten([k \in 1..Len(obj) |->
                        IF obj[k][1] = ArrayIndexKeys[n]
                        THEN <<obj[k]>> ELSE <<>>])])
    \o Flatten([k \in 1..Len(obj) |->
                  IF IsArrayIndex(obj[k][1]) THEN <<>> ELSE <<obj[k]>>])

\* An optional value (undefined, or a value) is a sequence of length 0 or 1.
Property(v, p) == IF p \in DOMAIN v THEN <<v[p]>> ELSE <<>>

\* `v[p] && v[p][q]`, for an object-valued property p.
PropertyOf(v, p, q) == IF p \in DOMAIN v THEN Property(v[p], q) ELSE <<>>

Field(name, value) ==
  IF value = <<>> THEN <<>> ELSE [n \in {name} |-> value[1]]

\* new RuleInfo(...) (lib/ruleinfo): the optional arguments left undefined
\* make no field.
RuleInfo(name, level, where, ruleType, ruleConfig, fixType, fixConfig, policyInfo, policyUrl) ==
  [name |-> name, level |-> level, where |-> where, ruleType |-> ruleType,
   ruleConfig |-> ruleConfig]
    @@ Field("fixType", fixType) @@ Field("fixConfig", fixConfig)
    @@ Field("policyInfo", policyInfo) @@ Field("policyUrl", policyUrl)

\* A string that split is applied to is known by its pieces: the string cut
\* at each ":", the ":" being pieces themselves.
Pieces ==
  ("file-existence" :> <<"file-existence">>)
    @@ ("readme:file-contents" :> <<"readme", ":", "file-contents">>)
    @@ ("notice:no-such-rule" :> <<"notice", ":", "no-such-rule">>)
    @@ ("license:file-existence" :> <<"license", ":", "file-existence">>)

RECURSIVE Split(_, _)
\* String.prototype.split(separator), over the pieces of the string.
Split(pieces, separator) ==
  IF pieces = <<>> THEN <<"">>
  ELSE LET rest == Split(Tail(pieces), separator) IN
         IF Head(pieces) = separator THEN <<"">> \o rest
         ELSE <<Head(pieces) \o Head(rest)>> \o Tail(rest)

\* array.reduce((a, c) => a.concat(c)): no initial value, so an empty array
\* throws a TypeError.
ReduceConcat(arrs) ==
  IF Len(arrs) = 0
  THEN [how |-> "throw",
        value |-> [name |-> "TypeError",
                   message |-> "Reduce of empty array with no initial value"]]
  ELSE [how |-> "return", value |-> Flatten(arrs)]

\* The callback of the inner map of the legacy branch.
LegacyRuleInfo(where, rulename, configray) ==
  LET parts == Split(Pieces[rulename], ":")
      name == parts[1]
      type == IF Len(parts) >= 2 /\ parts[2] # "" THEN parts[2] ELSE name IN
    RuleInfo(name, configray[1],
             IF where = "all" THEN <<>> ELSE <<where>>,
             type,
             IF Len(configray) >= 2 THEN configray[2] ELSE EmptyObject,
             <<>>, <<>>, <<>>, <<>>)

\* parseConfig(config), for a config with a `rules` object: what it returns or
\* what it throws.
parseConfig(config) ==
  IF "version" \in DOMAIN config /\ config.version = 2
  THEN LET entries == ObjectEntries(config.rules) IN
         [how |-> "return",
          value |-> [k \in 1..Len(entries) |->
                       LET name == entries[k][1]
                           cfg == entries[k][2] IN
                         RuleInfo(name, cfg.level, cfg.where, cfg.rule.type,
                                  cfg.rule.options,
                                  PropertyOf(cfg, "fix", "type"),
                                  PropertyOf(cfg, "fix", "options"),
                                  Property(cfg, "policyInfo"),
                                  Property(cfg, "policyUrl"))]]
  ELSE LET groups == ObjectEntries(config.rules) IN
         ReduceConcat(
           [g \in 1..Len(groups) |->
              LET where == groups[g][1]
                  rules == ObjectEntries(groups[g][2]) IN
                [k \in 1..Len(rules) |->
                   LegacyRuleInfo(where, rules[k][1], rules[k][2])]])

(***************************************************************************)
(* determineTargets                                                        *)
(***************************************************************************)
\* The axioms loadAxioms() registers.
allAxioms == {"linguist", "licensee", "packagers"}

HasAxiom(axiomId) == axiomId \in allAxioms

\* Faulty variant: an unregistered axiom is a fault of the resolution.
StartAxiomThrowing(entry) ==
  IF ~HasAxiom(entry[1])
  THEN [kind |-> "rejected",
        reason |-> [name |-> "Error",
                    message |-> "invalid axiom name " \o entry[1]]]
  ELSE [kind |-> "awaitAxiom", name |-> entry[2]]

\* The callback of Object.entries(axiomconfig).map up to its await.
StartAxiom(entry) ==
  IF ~HasAxiom(entry[1])
  THEN [kind |-> "fulfilled",
        value |-> <<entry[2],
                    Result("invalid axiom name " \o entry[1], <<>>, FALSE)>>]
  ELSE [kind |-> "awaitAxiom", name |-> entry[2]]

\* Faulty variant: a fault of the axiom plugin is caught and reported as a
\* failed result.
AfterAxiomCatching(axiomName, out) ==
  IF out.how = "throw"
  THEN [kind |-> "fulfilled",
        value |-> <<axiomName, Result("axiom threw an error", <<>>, FALSE)>>]
  ELSE [kind |-> "fulfilled", value |-> <<axiomName, out.value>>]

\* The continuation after `await axiomFunction(fs)`.
AfterAxiom(axiomName, out) ==
  IF out.how = "throw"
  THEN [kind |-> "rejected", reason |-> out.value]
  ELSE [kind |-> "fulfilled", value |-> <<axiomName, out.value>>]

\* a[k] = v: the value of an existing key is replaced where the key is.
Assign(obj, k, v) ==
  IF \E j \in 1..Len(obj) : obj[j][1] = k
  THEN [j \in 1..Len(obj) |-> IF obj[j][1] = k THEN <<k, v>> ELSE obj[j]]
  ELSE Append(obj, <<k, v>>)

RECURSIVE FromEntries(_)
\* ruleresults.reduce((a, [k, v]) => { a[k] = v; return a }, {})
FromEntries(pairs) ==
  IF Len(pairs) = 0 THEN EmptyObject
  ELSE Assign(FromEntries(SubSeq(pairs, 1, Len(pairs) - 1)),
              pairs[Len(pairs)][1], pairs[Len(pairs)][2])

(***************************************************************************)
(* lint: the configuration                                                *)
(***************************************************************************)
IsString(v) == "js" \in DOMAIN v /\ v.js = "string"

String(str) == [js |-> "string", str |-> str]

\* Error.prototype.toString
ErrorToString(e) == e.name \o ": " \o e.message

\* What the validator compiled from rulesets/schema.json accepts: an object
\* with a `rules` key.
SchemaAccepts(config) == ~IsNullish(config) /\ "rules" \in DOMAIN config

validateConfig(config) ==
  IF ~SchemaAccepts(config)
  THEN [passed |-> FALSE,
        error |-> "Configuration validation failed with errors: \n"
                    \o "\tconfiguration should have required property 'rules'"]
  ELSE [passed |-> TRUE]

\* The object lint returns from its catch and when the validation failed,
\* or the TypeError that reading ruleset.formatOptions raises on the way.
ErrorReturn(ruleset, errMsg) ==
  IF IsNullish(ruleset)
  THEN [state |-> "rejected",
        reason |-> TypeErrorReading(ruleset, "formatOptions")]
  ELSE [state |-> "fulfilled",
        value |-> [passed |-> FALSE, errored |-> TRUE, errMsg |-> errMsg,
                   results |-> <<>>, targets |-> EmptyObject]]

(***************************************************************************)
(* Inputs                                                                  *)
(***************************************************************************)
\* RuleInfo objects as parseConfig builds them, without their names.
Descriptors ==
  { [level |-> "error", where |-> <<>>, ruleType |-> "file-existence",
     ruleConfig |-> [file |-> "LICENSE"]],
    [level |-> "warning", where |-> <<"language=js">>, ruleType |-> "file-contents",
     ruleConfig |-> [file |-> "README"], fixType |-> "file-create",
     fixConfig |-> [file |-> "README"]],
    [level |-> "error", where |-> <<"license=*", "language=py", "language=rb">>,
     ruleType |-> "file-contents", ruleConfig |-> [file |-> "setup.py"],
     fixType |-> "file-create", fixConfig |-> [file |-> "setup.py"]],
    [level |-> "off", where |-> <<"language=rb">>, ruleType |-> "no-such-rule",
     ruleConfig |-> [file |-> "Gemfile"], fixType |-> "file-create",
     fixConfig |-> [file |-> "Gemfile"]],
    [level |-> "error", where |-> <<>>, ruleType |-> "no-such-rule",
     ruleConfig |-> [file |-> "NOTICE"]],
    [level |-> "error", where |-> <<>>, ruleType |-> "file-existence",
     ruleConfig |-> [file |-> "CHANGELOG"], fixType |-> "no-such-fix",
     fixConfig |-> [file |-> "CHANGELOG"]],
    [level |-> "off", where |-> <<>>, ruleType |-> "file-existence",
     ruleConfig |-> [file |-> "AUTHORS"], fixType |-> "file-create",
     fixConfig |-> [file |-> "AUTHORS"]],
    [level |-> "warning", where |-> <<"language=rb">>, ruleType |-> "no-such-rule",
     ruleConfig |-> [file |-> "Rakefile"]],
    [level |-> "error", where |-> <<>>, ruleType |-> "file-existence",
     ruleConfig |-> [file |-> "CONTRIBUTING"], fixType |-> "file-create",
     fixConfig |-> [file |-> "CONTRIBUTING"]] }

\* Rule names are unique within a ruleset.
RuleNames == <<"rule-a", "rule-b", "rule-c", "rule-d">>

Named(d, i) == [name |-> RuleNames[i]] @@ d

Rulesets(maxLen) ==
  UNION { { [i \in 1..n |-> Named(ds[i], i)] : ds \in [1..n -> Descriptors] }
          : n \in 0..maxLen }

\* Targets as plugins report them: with and without a path, passed or not.
PassedTargets == <<[path |-> "LICENSE", passed |-> TRUE]>>
FailedTargets ==
  <<[path |-> "a.md", passed |-> TRUE], [path |-> "b.md", passed |-> FALSE],
    [passed |-> FALSE, message |-> "not found"], [path |-> "", passed |-> FALSE],
    [path |-> "c.md", passed |-> FALSE]>>

\* How a rule plugin may settle: what it returns or what it throws (rejects with).
RuleOutcomes ==
  { [how |-> "return", value |-> Result("found", PassedTargets, TRUE)],
    [how |-> "return", value |-> Result("missing", FailedTargets, FALSE)],
    [how |-> "return", value |-> [failures |-> <<"File doesn't contain it">>]],
    [how |-> "return", value |-> Undefined],
    [how |-> "throw", value |-> [name |-> "Error", message |-> "boom"]],
    [how |-> "throw", value |-> [js |-> "string", str |-> "boom"]],
    [how |-> "throw", value |-> Null] }

\* How a fix plugin may settle.
FixOutcomes ==
  { [how |-> "return", value |-> Result("created", PassedTargets, TRUE)],
    [how |-> "return", value |-> Result("not created", <<>>, FALSE)],
    [how |-> "return", value |-> Undefined],
    [how |-> "throw", value |-> [name |-> "Error", message |-> "EACCES"]],
    [how |-> "throw", value |-> Undefined] }

AxiomNames == {"language", "license", "packagers"}

\* Results of axiom plugins.
AxiomResults ==
  { Result("", <<[path |-> "js", passed |-> TRUE], [path |-> "py", passed |-> FALSE]>>, TRUE),
    Result("", <<>>, TRUE),
    Result("", <<[path |-> "js", passed |-> TRUE]>>, FALSE),
    Result("invalid axiom name", <<>>, FALSE) }

\* The entries of an object mapping distinct axiom names to results.
AxiomMaps(maxLen) ==
  UNION { { [i \in 1..n |-> <<names[i], res[i]>>] :
              names \in { f \in [1..n -> AxiomNames] :
                           \A a, b \in 1..n : a # b => f[a] # f[b] },
              res \in [1..n -> AxiomResults] }
          : n \in 0..maxLen }

BooleanTargets == [type |-> "boolean", value |-> TRUE]
ObjectTargets(entries) == [type |-> "object", entries |-> entries]

\* The axiom maps of the main specification: what lint passes when no axiom
\* is configured, and a map with a passed and a failed axiom.
SomeTargets ==
  { ObjectTargets(<<>>),
    ObjectTargets(<<
      <<"language", Result("", <<[path |-> "js", passed |-> TRUE],
                                 [path |-> "py", passed |-> FALSE]>>, TRUE)>>,
      <<"license", Result("", <<[path |-> "MIT", passed |-> TRUE]>>, FALSE)>> >>) }

\* The objects of at most maxLen properties with these keys and values.
Objects(keys, values, maxLen) ==
  UNION { { [i \in 1..n |-> <<ks[i], vs[i]>>] :
              ks \in { f \in [1..n -> keys] :
                        \A a, b \in 1..n : a # b => f[a] # f[b] },
              vs \in [1..n -> values] }
          : n \in 0..maxLen }

\* The entries of the `rules` object of a version 2 configuration.
V2Rules ==
  { [level |-> "error", where |-> <<>>,
     rule |-> [type |-> "file-existence", options |-> [file |-> "LICENSE"]]],
    [level |-> "error", where |-> <<"language=js">>,
     rule |-> [type |-> "file-contents", options |-> [file |-> "README"]],
     fix |-> [type |-> "file-create", options |-> [file |-> "README"]],
     policyInfo |-> "A README is required", policyUrl |-> "https://example.org"],
    [level |-> "warning", where |-> <<>>,
     rule |-> [type |-> "file-existence", options |-> [file |-> "NOTICE"]],
     fix |-> [type |-> "file-create"]],
    [level |-> "off", where |-> <<"license=*">>,
     rule |-> [type |-> "no-such-rule", options |-> EmptyObject]] }

V2Names == {"rule-a", "2", "1"}

V2Configs(maxLen) ==
  { [version |-> 2, rules |-> rules] : rules \in Objects(V2Names, V2Rules, maxLen) }

\* Legacy configurations: condition groups of "name:type" -> [level, options].
LegacyGroups == {"all", "language=js"}

LegacyRules == { <<"error">>, <<"warning", [file |-> "README"]>> }

LegacyConfigs(maxLen) ==
  { [rules |-> groups] :
      groups \in Objects(LegacyGroups,
                         Objects(DOMAIN Pieces, LegacyRules, maxLen), maxLen) }

\* The `axioms` object of a configuration: axiom id -> display name.
AxiomIds == {"linguist", "licensee", "no-such-axiom"}

AxiomConfigs(maxLen) == Objects(AxiomIds, {"language", "license"}, maxLen)

\* How an axiom plugin may settle.
AxiomOutcomes ==
  { [how |-> "return",
     value |-> Result("", <<[path |-> "js", passed |-> TRUE]>>, TRUE)],
    [how |-> "return", value |-> Result("no license found", <<>>, FALSE)],
    [how |-> "throw", value |-> [name |-> "Error", message |-> "spawn ENOENT"]] }

\* The configurations lint is run with: version 2 without and with axioms,
\* one without `rules`, and a legacy one without condition groups.
WithoutAxioms ==
  [version |-> 2,
   rules |-> <<
     <<"rule-a", [level |-> "error", where |-> <<>>,
                  rule |-> [type |-> "file-existence",
                            options |-> [file |-> "LICENSE"]]]>>,
     <<"rule-b", [level |-> "error", where |-> <<"language=js">>,
                  rule |-> [type |-> "file-contents",
                            options |-> [file |-> "README"]],
                  fix |-> [type |-> "file-create",
                           options |-> [file |-> "README"]]]>> >>]

WithAxioms ==
  WithoutAxioms
    @@ [axioms |-> << <<"linguist", "language">>, <<"licensee", "license">> >>]

LintConfigs ==
  { WithoutAxioms, WithAxioms, [version |-> 2], [rules |-> EmptyObject] }

\* The `ruleset` argument of lint: an object, a path, or null.
LintRulesets == LintConfigs \cup {String("repolint.json"), Null}

\* How reading and parsing the configuration file may end.
FileOutcomes ==
  { [how |-> "throw",
     value |-> [name |-> "Error", message |-> "ENOENT: no such file or directory"]],
    [how |-> "throw",
     value |-> [name |-> "SyntaxError", message |-> "Unexpected end of JSON input"]],
    [how |-> "return", value |-> Null] }
    \cup { [how |-> "return", value |-> c] : c \in {WithoutAxioms, [version |-> 2]} }

(***************************************************************************)
(* State                                                                   *)
(***************************************************************************)
VARIABLES
  caller,       \* "lint" or "api": who called runRuleset
  ruleset,      \* runRuleset's argument: the RuleInfo array
  targets,      \* runRuleset's argument: the axiom map, or boolean true
  dryRun,       \* runRuleset's argument
  pc,           \* where runRuleset is: "start", "loaded", "mapped"
  targetArray,  \* runRuleset's local
  results,      \* the promises of ruleset.map(async r => ...), by index
  order,        \* the indices of the settled promises, in settling order
  ruleCalls,    \* per rule, the arguments of each rule plugin invocation
  fixCalls,     \* per rule, the arguments of each fix plugin invocation
  ruleOuts,     \* per rule, how each rule plugin invocation settled
  fixOuts,      \* per rule, how each fix plugin invocation settled
  ret,          \* the promise runRuleset returns
  report,       \* the promise lint returns
  lintPc,       \* where lint is: "start", the call it awaits, "done"
  lintRuleset,  \* lint's `ruleset`: its argument, then the loaded object
  rulesetPath,  \* lint's local
  fileOuts,     \* how each reading and parsing of the file ended
  configParsed, \* lint's local
  axiomPc,      \* where determineTargets is: "idle", "start", "mapped"
  axiomconfig,  \* determineTargets's argument
  ruleresults,  \* the promises of Object.entries(axiomconfig).map(...)
  axiomOrder,   \* the indices of the settled promises, in settling order
  axiomCalls,   \* the ids of the axiom plugins invoked, in order
  axiomOuts,    \* per entry, how each axiom plugin invocation settled
  targetsRet    \* the promise determineTargets returns

\* lint's frame up to its call of runRuleset, and determineTargets.
lintFrame == <<lintPc, lintRuleset, rulesetPath, fileOuts, configParsed>>
axiomFrame == <<axiomPc, axiomconfig, ruleresults, axiomOrder, axiomCalls,
                axiomOuts, targetsRet>>
runFrame == <<pc, targetArray, results, order, ruleCalls, fixCalls, ruleOuts,
              fixOuts, ret>>

vars == <<caller, ruleset, targets, dryRun, pc, targetArray, results, order,
          ruleCalls, fixCalls, ruleOuts, fixOuts, ret, report, lintFrame,
          axiomFrame>>

\* What runRuleset leaves alone: its arguments and the frames of its caller.
inputs == <<caller, ruleset, targets, dryRun, lintFrame, axiomFrame>>

Pending == [state |-> "pending"]

InitWith(rulesets, targetSet, dryRuns) ==
  /\ ruleset \in rulesets
  /\ targets \in targetSet
  /\ dryRun \in dryRuns
  \* lint always passes an object; a direct call with an object runs as
  \* lint's call does until runRuleset returns.
  /\ caller = IF targets.type = "boolean" THEN "api" ELSE "lint"
  /\ pc = "start"
  /\ targetArray = <<>>
  /\ results = <<>>
  /\ order = <<>>
  /\ ruleCalls = [i \in 1..Len(ruleset) |-> <<>>]
  /\ fixCalls = [i \in 1..Len(ruleset) |-> <<>>]
  /\ ruleOuts = [i \in 1..Len(ruleset) |-> <<>>]
  /\ fixOuts = [i \in 1..Len(ruleset) |-> <<>>]
  /\ ret = Pending
  /\ report = Pending
  \* lint, where there is one, awaits runRuleset; its frame is left out.
  /\ lintPc = IF caller = "lint" THEN "runRuleset" ELSE "none"
  /\ lintRuleset = Undefined
  /\ rulesetPath = Null
  /\ fileOuts = <<>>
  /\ configParsed = ruleset
  /\ axiomPc = "idle"
  /\ axiomconfig = EmptyObject
  /\ ruleresults = <<>>
  /\ axiomOrder = <<>>
  /\ axiomCalls = <<>>
  /\ axiomOuts = <<>>
  /\ targetsRet = Pending

Init == InitWith(Rulesets(MaxRules), SomeTargets, BOOLEAN)

(***************************************************************************)
(* runRuleset                                                              *)
(***************************************************************************)
\* Up to `await loadFixes()`.
Begin ==
  /\ pc = "start"
  /\ targetArray' = TargetArray(targets)
  /\ pc' = "loaded"
  /\ UNCHANGED <<inputs, results, order, ruleCalls, fixCalls, ruleOuts, fixOuts,
                 ret, report>>

\* ruleset.map(...): every callback runs to its first await, in index order.
MapRules ==
  /\ pc = "loaded"
  /\ results' = [i \in 1..Len(ruleset) |->
                   StartRule(ruleset[i], targets, targetArray)]
  /\ ruleCalls' = [i \in 1..Len(ruleset) |->
                     IF results'[i].kind = "awaitRule"
                     THEN Append(ruleCalls[i], results'[i].call)
                     ELSE ruleCalls[i]]
  /\ order' = SelectSeq([i \in 1..Len(ruleset) |-> i],
                        LAMBDA i : results'[i].kind = "fulfilled")
  /\ pc' = "mapped"
  /\ UNCHANGED <<inputs, targetArray, fixCalls, ruleOuts, fixOuts, ret, report>>

Settled(p) == p.kind \in {"fulfilled", "rejected"}

\* Faulty variant: a barrier between the rules' lint and their fixes; the
\* continuation that would call the fix waits for every other rule plugin.
RuleSettlesBehindBarrier(i, out) ==
  /\ pc = "mapped"
  /\ results[i].kind = "awaitRule"
  /\ LET next == AfterRule(ruleset[i], out, dryRun) IN
       /\ next.kind = "awaitFix" =>
            \A j \in 1..Len(results) :
              j # i => results[j].kind # "awaitRule"
       /\ results' = [results EXCEPT ![i] = next]
       /\ fixCalls' = IF next.kind = "awaitFix"
                      THEN [fixCalls EXCEPT ![i] = Append(@, next.call)]
                      ELSE fixCalls
       /\ order' = IF Settled(next) THEN Append(order, i) ELSE order
  /\ ruleOuts' = [ruleOuts EXCEPT ![i] = Append(@, out)]
  /\ UNCHANGED <<inputs, pc, targetArray, ruleCalls, fixOuts, ret, report>>

\* The rule plugin of rule i settles and the callback runs on.
RuleSettles(i, out) ==
  /\ pc = "mapped"
  /\ results[i].kind = "awaitRule"
  /\ LET next == AfterRule(ruleset[i], out, dryRun) IN
       /\ results' = [results EXCEPT ![i] = next]
       /\ fixCalls' = IF next.kind = "awaitFix"
                      THEN [fixCalls EXCEPT ![i] = Append(@, next.call)]
                      ELSE fixCalls
       /\ order' = IF Settled(next) THEN Append(order, i) ELSE order
  /\ ruleOuts' = [ruleOuts EXCEPT ![i] = Append(@, out)]
  /\ UNCHANGED <<inputs, pc, targetArray, ruleCalls, fixOuts, ret, report>>

\* The fix plugin of rule i settles and the callback runs on.
FixSettles(i, out) ==
  /\ pc = "mapped"
  /\ results[i].kind = "awaitFix"
  /\ results' = [results EXCEPT
                   ![i] = AfterFix(ruleset[i], results[i].result, out)]
  /\ order' = Append(order, i)
  /\ fixOuts' = [fixOuts EXCEPT ![i] = Append(@, out)]
  /\ UNCHANGED <<inputs, pc, targetArray, ruleCalls, fixCalls, ruleOuts, ret,
                 report>>

\* Promise.all(results) fulfils once every promise has.
AllFulfilled ==
  /\ pc = "mapped"
  /\ ret.state = "pending"
  /\ \A i \in 1..Len(results) : results[i].kind = "fulfilled"
  /\ ret' = [state |-> "fulfilled", value |-> PromiseAllValues(results, order)]
  /\ UNCHANGED <<inputs, pc, targetArray, results, order, ruleCalls, fixCalls,
                 ruleOuts, fixOuts, report>>

\* Promise.all(results) rejects as soon as one promise has.
AnyRejected ==
  /\ pc = "mapped"
  /\ ret.state = "pending"
  /\ \E i \in 1..Len(results) : results[i].kind = "rejected"
  /\ ret' = [state |-> "rejected", reason |-> PromiseAllReason(results, order)]
  /\ UNCHANGED <<inputs, pc, targetArray, results, order, ruleCalls, fixCalls,
                 ruleOuts, fixOuts, report>>

(***************************************************************************)
(* lint, from `await runRuleset(...)` on                                   *)
(***************************************************************************)
LintReturns ==
  /\ caller = "lint"
  /\ report.state = "pending"
  /\ ret.state = "fulfilled"
  /\ report' = [state |-> "fulfilled",
                value |-> [passed |-> Passed(ret.value), errored |-> FALSE,
                           results |-> ret.value, targets |-> targets.entries]]
  /\ UNCHANGED <<inputs, pc, targetArray, results, order, ruleCalls, fixCalls,
                 ruleOuts, fixOuts, ret>>

\* `await runRuleset(...)` throws: nothing in lint catches it.
LintRejects ==
  /\ caller = "lint"
  /\ report.state = "pending"
  /\ ret.state = "rejected"
  /\ report' = [state |-> "rejected", reason |-> ret.reason]
  /\ UNCHANGED <<inputs, pc, targetArray, results, order, ruleCalls, fixCalls,
                 ruleOuts, fixOuts, ret>>

Next ==
  \/ Begin
  \/ MapRules
  \/ \E i \in 1..Len(ruleset) : \E out \in RuleOutcomes : RuleSettles(i, out)
  \/ \E i \in 1..Len(ruleset) : \E out \in FixOutcomes : FixSettles(i, out)
  \/ AllFulfilled
  \/ AnyRejected
  \/ LintReturns
  \/ LintRejects

Spec == Init /\ [][Next]_vars

\* Boolean true and the axiom maps in full, each with one rule.
InitTargets ==
  InitWith(Rulesets(1), {BooleanTargets} \cup
             {ObjectTargets(m) : m \in AxiomMaps(MaxAxioms)}, {FALSE})

SpecTargets == InitTargets /\ [][Next]_vars

\* The runs that are not dry runs: the fix plugins may write the filesystem.
InitWriting == InitWith(Rulesets(MaxRules), SomeTargets, {FALSE})

SpecWriting == InitWriting /\ [][Next]_vars

(***************************************************************************)
(* lint, up to its call of runRuleset                                     *)
(***************************************************************************)
\* runRuleset and determineTargets before they are called.
RunIdle ==
  /\ ruleset = <<>>
  /\ targets = ObjectTargets(EmptyObject)
  /\ dryRun = FALSE
  /\ pc = "idle"
  /\ targetArray = <<>>
  /\ results = <<>>
  /\ order = <<>>
  /\ ruleCalls = <<>>
  /\ fixCalls = <<>>
  /\ ruleOuts = <<>>
  /\ fixOuts = <<>>
  /\ ret = Pending

AxiomIdle ==
  /\ axiomPc = "idle"
  /\ axiomconfig = EmptyObject
  /\ ruleresults = <<>>
  /\ axiomOrder = <<>>
  /\ axiomCalls = <<>>
  /\ axiomOuts = <<>>
  /\ targetsRet = Pending

InitLintWith(rulesets) ==
  /\ caller = "lint"
  /\ lintPc = "start"
  /\ lintRuleset \in rulesets
  /\ rulesetPath = Null
  /\ fileOuts = <<>>
  /\ configParsed = <<>>
  /\ report = Pending
  /\ RunIdle
  /\ AxiomIdle

\* Lines 125-144: up to `await readFile(...)` or `await validateConfig(...)`.
LintBegins ==
  /\ lintPc = "start"
  /\ IF IsString(lintRuleset)
     THEN rulesetPath' = String(lintRuleset.str) /\ lintPc' = "readFile"
     ELSE IF IsNullish(lintRuleset)
     THEN rulesetPath' = String("repolint.json") /\ lintPc' = "readFile"
     ELSE rulesetPath' = Null /\ lintPc' = "validateConfig"
  /\ UNCHANGED <<caller, ruleset, targets, dryRun, runFrame, report,
                 lintRuleset, fileOuts, configParsed, axiomFrame>>

\* The file is read and parsed, or the catch returns.
FileSettles(out) ==
  /\ lintPc = "readFile"
  /\ fileOuts' = Append(fileOuts, out)
  /\ IF out.how = "throw"
     THEN /\ report' = ErrorReturn(lintRuleset, ErrorToString(out.value))
          /\ lintPc' = "done"
          /\ UNCHANGED lintRuleset
     ELSE /\ lintRuleset' = out.value
          /\ lintPc' = "validateConfig"
          /\ UNCHANGED report
  /\ UNCHANGED <<caller, ruleset, targets, dryRun, runFrame, rulesetPath,
                 configParsed, axiomFrame>>

\* lint returns or throws before it has called runRuleset.
LintSettles(promise) ==
  /\ report' = promise
  /\ lintPc' = "done"
  /\ UNCHANGED <<caller, ruleset, targets, dryRun, runFrame, lintRuleset,
                 rulesetPath, fileOuts, configParsed, axiomFrame>>

\* Faulty variant: without axioms, boolean true is passed for the targets.
CallRunRulesetForAllTargets(rules, targetObj) ==
  /\ lintPc' = "runRuleset"
  /\ ruleset' = rules
  /\ targets' = IF targetObj = EmptyObject THEN BooleanTargets
                ELSE ObjectTargets(targetObj)
  /\ pc' = "start"
  /\ ruleCalls' = [i \in 1..Len(rules) |-> <<>>]
  /\ fixCalls' = [i \in 1..Len(rules) |-> <<>>]
  /\ ruleOuts' = [i \in 1..Len(rules) |-> <<>>]
  /\ fixOuts' = [i \in 1..Len(rules) |-> <<>>]
  /\ UNCHANGED <<caller, dryRun, targetArray, results, order, ret, report,
                 lintRuleset, rulesetPath, fileOuts>>

\* runRuleset(configParsed, targetObj, fileSystem, dryRun) is called.
CallRunRuleset(rules, targetObj) ==
  /\ lintPc' = "runRuleset"
  /\ ruleset' = rules
  /\ targets' = ObjectTargets(targetObj)
  /\ pc' = "start"
  /\ ruleCalls' = [i \in 1..Len(rules) |-> <<>>]
  /\ fixCalls' = [i \in 1..Len(rules) |-> <<>>]
  /\ ruleOuts' = [i \in 1..Len(rules) |-> <<>>]
  /\ fixOuts' = [i \in 1..Len(rules) |-> <<>>]
  /\ UNCHANGED <<caller, dryRun, targetArray, results, order, ret, report,
                 lintRuleset, rulesetPath, fileOuts>>

\* Lines 169-195: from the verdict of validateConfig to the next await.
ConfigValidated ==
  /\ lintPc = "validateConfig"
  /\ LET val == validateConfig(lintRuleset) IN
       IF ~val.passed
       THEN LintSettles(ErrorReturn(lintRuleset, val.error))
       ELSE LET parsed == parseConfig(lintRuleset) IN
         IF parsed.how = "throw"
         THEN LintSettles([state |-> "rejected", reason |-> parsed.value])
         ELSE IF "axioms" \in DOMAIN lintRuleset
         THEN /\ configParsed' = parsed.value
              /\ lintPc' = "determineTargets"
              /\ axiomconfig' = lintRuleset.axioms
              /\ axiomPc' = "start"
              /\ UNCHANGED <<caller, ruleset, targets, dryRun, runFrame,
                             report, lintRuleset, rulesetPath, fileOuts,
                             ruleresults, axiomOrder, axiomCalls, axiomOuts,
                             targetsRet>>
         ELSE /\ configParsed' = parsed.value
              /\ CallRunRuleset(parsed.value, EmptyObject)
              /\ UNCHANGED axiomFrame

(***************************************************************************)
(* determineTargets                                                        *)
(***************************************************************************)
\* After `await loadAxioms()`: every callback runs to its await, in the
\* order of Object.entries.
MapAxioms ==
  /\ axiomPc = "start"
  /\ LET entries == ObjectEntries(axiomconfig) IN
       /\ ruleresults' = [k \in 1..Len(entries) |-> StartAxiom(entries[k])]
       /\ axiomCalls' =
            Flatten([k \in 1..Len(entries) |->
                       IF ruleresults'[k].kind = "awaitAxiom"
                       THEN <<entries[k][1]>> ELSE <<>>])
       /\ axiomOrder' =
            Flatten([k \in 1..Len(entries) |->
                       IF Settled(ruleresults'[k]) THEN <<k>> ELSE <<>>])
       /\ axiomOuts' = [k \in 1..Len(entries) |-> <<>>]
  /\ axiomPc' = "mapped"
  /\ UNCHANGED <<caller, ruleset, targets, dryRun, runFrame, report,
                 lintFrame, axiomconfig, targetsRet>>

\* The axiom plugin of entry k settles and the callback runs on.
AxiomSettles(k, out) ==
  /\ axiomPc = "mapped"
  /\ ruleresults[k].kind = "awaitAxiom"
  /\ ruleresults' = [ruleresults EXCEPT ![k] = AfterAxiom(@.name, out)]
  /\ axiomOrder' = Append(axiomOrder, k)
  /\ axiomOuts' = [axiomOuts EXCEPT ![k] = Append(@, out)]
  /\ UNCHANGED <<caller, ruleset, targets, dryRun, runFrame, report,
                 lintFrame, axiomPc, axiomconfig, axiomCalls, targetsRet>>

\* Promise.all fulfils and the reduce builds the map.
TargetsFulfilled ==
  /\ axiomPc = "mapped"
  /\ targetsRet.state = "pending"
  /\ \A k \in 1..Len(ruleresults) : ruleresults[k].kind = "fulfilled"
  /\ targetsRet' =
       [state |-> "fulfilled",
        value |-> FromEntries(PromiseAllValues(ruleresults, axiomOrder))]
  /\ UNCHANGED <<caller, ruleset, targets, dryRun, runFrame, report,
                 lintFrame, axiomPc, axiomconfig, ruleresults, axiomOrder,
                 axiomCalls, axiomOuts>>

\* Promise.all rejects: nothing in determineTargets catches it.
TargetsRejected ==
  /\ axiomPc = "mapped"
  /\ targetsRet.state = "pending"
  /\ \E k \in 1..Len(ruleresults) : ruleresults[k].kind = "rejected"
  /\ targetsRet' =
       [state |-> "rejected",
        reason |-> PromiseAllReason(ruleresults, axiomOrder)]
  /\ UNCHANGED <<caller, ruleset, targets, dryRun, runFrame, report,
                 lintFrame, axiomPc, axiomconfig, ruleresults, axiomOrder,
                 axiomCalls, axiomOuts>>

\* Line 193-195: targetObj is the map and runRuleset is called.
LintDispatches ==
  /\ lintPc = "determineTargets"
  /\ targetsRet.state = "fulfilled"
  /\ CallRunRuleset(configParsed, targetsRet.value)
  /\ UNCHANGED <<configParsed, axiomFrame>>

\* `await determineTargets(...)` throws: nothing in lint catches it.
LintTargetsReject ==
  /\ lintPc = "determineTargets"
  /\ targetsRet.state = "rejected"
  /\ LintSettles([state |-> "rejected", reason |-> targetsRet.reason])

NextAxioms ==
  \/ MapAxioms
  \/ \E k \in 1..Len(ruleresults) : \E out \in AxiomOutcomes :
       AxiomSettles(k, out)
  \/ TargetsFulfilled
  \/ TargetsRejected

NextLint ==
  \/ LintBegins
  \/ \E out \in FileOutcomes : FileSettles(out)
  \/ ConfigValidated
  \/ NextAxioms
  \/ LintDispatches
  \/ LintTargetsReject
  \/ Next

\* lint, called with each kind of `ruleset` argument.
InitLint == InitLintWith(LintRulesets)

SpecLint == InitLint /\ [][NextLint]_vars

\* determineTargets, called with each axiom configuration.
InitAxioms ==
  /\ caller = "api"
  /\ lintPc = "none"
  /\ lintRuleset = Undefined
  /\ rulesetPath = Null
  /\ fileOuts = <<>>
  /\ configParsed = <<>>
  /\ report = Pending
  /\ RunIdle
  /\ axiomPc = "start"
  /\ axiomconfig \in AxiomConfigs(MaxAxioms)
  /\ ruleresults = <<>>
  /\ axiomOrder = <<>>
  /\ axiomCalls = <<>>
  /\ axiomOuts = <<>>
  /\ targetsRet = Pending

SpecAxioms == InitAxioms /\ [][NextAxioms]_vars

\* lint, called with each configuration object, up to its call of
\* determineTargets or of runRuleset.
InitParse == InitLintWith(V2Configs(MaxEntries) \cup LegacyConfigs(MaxEntries))

NextParse == LintBegins \/ ConfigValidated

SpecParse == InitParse /\ [][NextParse]_vars

(***************************************************************************)
(* Properties                                                              *)
(***************************************************************************)
Rules == 1..Len(ruleset)

\* A well-formed Result, as the plugin contract describes it.
IsResult(v) == {"passed", "targets"} \subseteq DOMAIN v

\* The rule plugin of rule i has settled / how it did.
RuleSettled(i) == ruleOuts[i] # <<>>
RuleOut(i) == ruleOuts[i][1]

\* The rule plugin of rule i has returned a well-formed Result.
RuleReturnedResult(i) ==
  RuleSettled(i) /\ RuleOut(i).how = "return" /\ IsResult(RuleOut(i).value)

\* C1: whenever runRuleset returns, whatever the order in which the rule and
\* fix plugins completed, the returned sequence has the length of the input
\* rules and its i-th FormatResult carries the i-th RuleDescriptor.
C1_OrderPreserved ==
  ret.state = "fulfilled" =>
    /\ Len(ret.value) = Len(ruleset)
    /\ \A i \in Rules : ret.value[i].ruleInfo = ruleset[i]

\* C1 witness: runRuleset returned after a later rule completed before an
\* earlier one, both having awaited their plugins.
C1_Witness ==
  /\ ret.state = "fulfilled"
  /\ \E a, b \in 1..Len(order) :
       /\ a < b /\ order[a] > order[b]
       /\ ruleCalls[order[a]] # <<>> /\ ruleCalls[order[b]] # <<>>

\* C2 (as claimed): once a rule plugin has thrown or rejected, that rule's
\* promise is fulfilled with an ERROR FormatResult, "<ruleType> threw an
\* error: <message>" when the fault carries a message, and the fault keeps
\* no sibling from its FormatResult: runRuleset does not reject.
C2_FaultIsolated ==
  \A i \in Rules :
    (RuleSettled(i) /\ RuleOut(i).how = "throw") =>
      /\ results[i].kind = "fulfilled"
      /\ results[i].value.status = "ERROR"
      /\ results[i].value.ruleInfo = ruleset[i]
      /\ "message" \in DOMAIN RuleOut(i).value =>
           results[i].value.runMessage =
             ruleset[i].ruleType \o " threw an error: "
               \o RuleOut(i).value.message
      /\ ret.state # "rejected"

\* C3 (as claimed): whatever the plugins do, no rule is left without a
\* FormatResult and runRuleset does not reject.
C3_NeverRejects ==
  /\ ret.state # "rejected"
  /\ pc = "mapped" => \A i \in Rules : results[i].kind # "rejected"

\* C4: a rule whose level is "off" yields IGNORED and neither its rule plugin
\* nor its fix plugin is ever invoked, whatever its where, its ruleType and
\* the axiom results are.
C4_OffIgnored ==
  \A i \in Rules :
    ruleset[i].level = "off" =>
      /\ ruleCalls[i] = <<>> /\ fixCalls[i] = <<>>
      /\ pc = "mapped" =>
           /\ results[i].kind = "fulfilled"
           /\ results[i].value.status = "IGNORED"
           /\ results[i].value.ruleInfo = ruleset[i]
      /\ ret.state = "fulfilled" => ret.value[i].status = "IGNORED"

\* C4 witness: runRuleset returned for an "off" rule of an unregistered type
\* with an unsatisfied condition, next to a rule whose plugins both ran.
C4_Witness ==
  /\ ret.state = "fulfilled"
  /\ targets.type = "object"
  /\ \E i, j \in Rules :
       /\ ruleset[i].level = "off"
       /\ ruleset[i].ruleType \notin allRules
       /\ \E k \in 1..Len(ruleset[i].where) :
            ~Includes(targetArray, ruleset[i].where[k])
       /\ fixCalls[j] # <<>>

\* The tokens of an axiom map, as a set.
ExpectedTokens(entries) ==
  UNION { {entries[i][1] \o "=*"} \cup
            { entries[i][1] \o "=" \o entries[i][2].targets[k].path :
                k \in 1..Len(entries[i][2].targets) }
          : i \in { j \in 1..Len(entries) : entries[j][2].passed = TRUE } }

RECURSIVE QuotedList(_)
\* "c1", "c2", ...
QuotedList(conds) ==
  IF Len(conds) = 1 THEN "\"" \o conds[1] \o "\""
  ELSE "\"" \o conds[1] \o "\", " \o QuotedList(Tail(conds))

\* The conditions of rule i that are not tokens of the axiom map, in order.
Unsatisfied(i) ==
  SelectSeq(ruleset[i].where,
            LAMBDA c : c \notin ExpectedTokens(targets.entries))

IsIgnored(p) == p.kind = "fulfilled" /\ p.value.status = "IGNORED"

\* C5: with an axiom map, a rule whose level is not "off" yields IGNORED if
\* and only if one of its conditions is not a token of the map; the reason
\* then lists exactly the unsatisfied conditions, quoted and comma-joined in
\* the order of `where`, and no plugin is invoked.
C5_IgnoredIffUnsatisfied ==
  (pc = "mapped" /\ targets.type = "object") =>
    \A i \in Rules :
      ruleset[i].level # "off" =>
        /\ IsIgnored(results[i]) <=> Unsatisfied(i) # <<>>
        /\ Unsatisfied(i) # <<>> =>
             /\ results[i].value.runMessage =
                  "ignored due to unsatisfied condition(s): "
                    \o QuotedList(Unsatisfied(i))
             /\ ruleCalls[i] = <<>> /\ fixCalls[i] = <<>>

\* C5 witness: a rule is IGNORED on two of its conditions while a third
\* one, between them, is satisfied.
C5_Witness ==
  /\ pc = "mapped" /\ targets.type = "object"
  /\ \E i \in Rules :
       /\ ruleset[i].level # "off"
       /\ IsIgnored(results[i])
       /\ Len(ruleset[i].where) = 3
       /\ Unsatisfied(i) = <<ruleset[i].where[1], ruleset[i].where[3]>>

\* C6: the token set runRuleset builds holds, for every entry of the axiom
\* map with passed=true, "<name>=*" and "<name>=<path>" for each of its
\* targets whatever the target's own passed, and nothing else; "<name>=*"
\* of an entry with passed=false is not in it.
C6_TokenSet ==
  (pc # "start" /\ targets.type = "object") =>
    /\ { targetArray[k] : k \in 1..Len(targetArray) }
         = ExpectedTokens(targets.entries)
    /\ \A i \in 1..Len(targets.entries) :
         targets.entries[i][2].passed = FALSE =>
           ~Includes(targetArray, targets.entries[i][1] \o "=*")

\* C6 witness: the tokens are built from a map with a passed axiom that has
\* a failed target and a failed axiom that has a target.
C6_Witness ==
  /\ pc = "loaded" /\ targets.type = "object"
  /\ \E i, j \in 1..Len(targets.entries) :
       /\ targets.entries[i][2].passed = TRUE
       /\ \E k \in 1..Len(targets.entries[i][2].targets) :
            targets.entries[i][2].targets[k].passed = FALSE
       /\ targets.entries[j][2].passed = FALSE
       /\ targets.entries[j][2].targets # <<>>

Reverse(seq) == [k \in 1..Len(seq) |-> seq[Len(seq) + 1 - k]]

HasFailed(v) == "passed" \in DOMAIN v /\ v.passed = FALSE

RECURSIVE PathsOfFailed(_)
\* The paths, in order, of the targets with passed=false and a path.
PathsOfFailed(ts) ==
  IF ts = <<>> THEN <<>>
  ELSE (IF /\ Head(ts).passed = FALSE
           /\ "path" \in DOMAIN Head(ts)
           /\ Head(ts).path # ""
        THEN <<Head(ts).path>> ELSE <<>>) \o PathsOfFailed(Tail(ts))

HasRegisteredFix(r) == "fixType" \in DOMAIN r /\ r.fixType \in allFixes

\* C9: once a rule's plugin has returned a Result with passed=false and the
\* rule has a registered fixType, the fix plugin has been invoked once, with
\* the paths, in order, of the targets that have passed=false and a
\* non-empty path and with dispatch's dryRun; once the fix plugin has
\* returned, the FormatResult is LINT_AND_FIX carrying both Results.
C9_FixInvocation ==
  \A i \in Rules :
    ( /\ RuleReturnedResult(i) /\ RuleOut(i).value.passed = FALSE
      /\ HasRegisteredFix(ruleset[i]) ) =>
      /\ fixCalls[i] = << [options |-> ruleset[i].fixConfig,
                           targets |-> PathsOfFailed(RuleOut(i).value.targets),
                           dryRun |-> dryRun] >>
      /\ (fixOuts[i] # <<>> /\ fixOuts[i][1].how = "return") =>
           results[i] =
             [kind |-> "fulfilled",
              value |-> [status |-> "LINT_AND_FIX", ruleInfo |-> ruleset[i],
                         lintResult |-> RuleOut(i).value,
                         fixResult |-> fixOuts[i][1].value]]

\* C9 witness: under dryRun, a fix invoked on two of five targets returned.
C9_Witness ==
  /\ dryRun = TRUE
  /\ \E i \in Rules :
       /\ fixCalls[i] # <<>>
       /\ fixCalls[i][1].targets = <<"b.md", "c.md">>
       /\ Len(ruleOuts[i][1].value.targets) = 5
       /\ fixOuts[i] # <<>> /\ fixOuts[i][1].how = "return"
       /\ results[i].kind = "fulfilled"
       /\ results[i].value.status = "LINT_AND_FIX"

\* C10: once a rule's plugin has returned a Result, if that Result has
\* passed=true or the rule has no fixType, the FormatResult is LINT_ONLY
\* carrying that Result and no fix plugin is invoked for the rule, also
\* when the fixType is not registered.
C10_LintOnly ==
  \A i \in Rules :
    ( /\ RuleReturnedResult(i)
      /\ RuleOut(i).value.passed = TRUE \/ "fixType" \notin DOMAIN ruleset[i] ) =>
      /\ results[i] =
           [kind |-> "fulfilled",
            value |-> [status |-> "LINT_ONLY", ruleInfo |-> ruleset[i],
                       lintResult |-> RuleOut(i).value]]
      /\ fixCalls[i] = <<>>

\* C10 witness: a rule with an unregistered fixType passed and is LINT_ONLY.
C10_Witness ==
  \E i \in Rules :
    /\ "fixType" \in DOMAIN ruleset[i]
    /\ ruleset[i].fixType \notin allFixes
    /\ RuleReturnedResult(i) /\ RuleOut(i).value.passed = TRUE
    /\ results[i].kind = "fulfilled"
    /\ results[i].value.status = "LINT_ONLY"

\* C11 (as claimed): a failed rule with an unregistered fixType holds ERROR
\* "<fixType> is not a valid fix" in its own slot and no fix plugin is
\* invoked; once the fix plugin has thrown or rejected, the rule's slot holds
\* ERROR "<fixType> threw an error: <message>"; no entry is added to the
\* results and no sibling loses its FormatResult: runRuleset does not reject.
C11_FixFaults ==
  /\ \A i \in Rules :
       /\ ( /\ RuleReturnedResult(i) /\ RuleOut(i).value.passed = FALSE
            /\ "fixType" \in DOMAIN ruleset[i]
            /\ ruleset[i].fixType \notin allFixes ) =>
            /\ results[i] =
                 [kind |-> "fulfilled",
                  value |-> [status |-> "ERROR", ruleInfo |-> ruleset[i],
                             runMessage |-> ruleset[i].fixType
                                              \o " is not a valid fix"]]
            /\ fixCalls[i] = <<>>
       /\ (fixOuts[i] # <<>> /\ fixOuts[i][1].how = "throw") =>
            /\ results[i].kind = "fulfilled"
            /\ results[i].value.status = "ERROR"
            /\ results[i].value.ruleInfo = ruleset[i]
            /\ "message" \in DOMAIN fixOuts[i][1].value =>
                 results[i].value.runMessage =
                   ruleset[i].fixType \o " threw an error: "
                     \o fixOuts[i][1].value.message
            /\ ret.state # "rejected"
  /\ ret.state = "fulfilled" => Len(ret.value) = Len(ruleset)

\* C18: a rule of an unregistered type yields IGNORED when its level is
\* "off" or, with an axiom map, one of its conditions is unsatisfied;
\* otherwise it yields ERROR "<type> is not a valid rule"; no plugin is
\* invoked for it either way.
C18_Precedence ==
  pc = "mapped" =>
    \A i \in Rules :
      ruleset[i].ruleType \notin allRules =>
        /\ ruleCalls[i] = <<>> /\ fixCalls[i] = <<>>
        /\ IF \/ ruleset[i].level = "off"
              \/ targets.type = "object" /\ Unsatisfied(i) # <<>>
           THEN IsIgnored(results[i])
           ELSE results[i] =
                  [kind |-> "fulfilled",
                   value |-> [status |-> "ERROR", ruleInfo |-> ruleset[i],
                              runMessage |-> ruleset[i].ruleType
                                               \o " is not a valid rule"]]

\* C18 witness: a rule of an unregistered type, not "off", is IGNORED on an
\* unsatisfied condition.
C18_Witness ==
  /\ pc = "mapped" /\ targets.type = "object"
  /\ \E i \in Rules :
       /\ ruleset[i].ruleType \notin allRules
       /\ ruleset[i].level # "off"
       /\ Unsatisfied(i) # <<>>
       /\ IsIgnored(results[i])

\* The rule (fix) plugin of rule i has been invoked and has not settled.
RuleRunning(i) == Len(ruleCalls[i]) > Len(ruleOuts[i])
FixRunning(i) == Len(fixCalls[i]) > Len(fixOuts[i])

\* C19: a rule's fix plugin is invoked only once that rule's plugin has
\* returned its Result, never while it runs, and each rule's plugin and fix
\* plugin are invoked at most once.
C19_FixFollowsRule ==
  \A i \in Rules :
    /\ Len(ruleCalls[i]) <= 1 /\ Len(fixCalls[i]) <= 1
    /\ Len(ruleOuts[i]) <= Len(ruleCalls[i])
    /\ Len(fixOuts[i]) <= Len(fixCalls[i])
    /\ fixCalls[i] # <<>> =>
         /\ ~RuleRunning(i)
         /\ RuleReturnedResult(i)

\* C19 witness: the fix of one rule runs, after its rule plugin returned,
\* while the fix of another rule has already settled.
C19_Witness ==
  \E i, j \in Rules :
    /\ FixRunning(i) /\ RuleReturnedResult(i)
    /\ fixOuts[j] # <<>>

\* The value of property k of an object, and whether it has one.
Has(obj, k) == \E j \in 1..Len(obj) : obj[j][1] = k
Get(obj, k) == obj[CHOOSE j \in 1..Len(obj) : obj[j][1] = k][2]

\* The entries of the axiom configuration, as determineTargets walks them.
AxiomEntries == ObjectEntries(axiomconfig)

InvalidAxiom(id) == Result("invalid axiom name " \o id, <<>>, FALSE)

\* No other entry has the display name of entry k.
DistinctName(k) ==
  \A j \in 1..Len(AxiomEntries) :
    j # k => AxiomEntries[j][2] # AxiomEntries[k][2]

\* No later entry has the display name of entry k.
LastOfName(k) ==
  \A j \in (k + 1)..Len(AxiomEntries) :
    AxiomEntries[j][2] # AxiomEntries[k][2]

\* Every registered axiom is invoked, and the map holds the result of each
\* one that has a display name of its own; determineTargets rejects only
\* when an axiom plugin has thrown.
SiblingsResolved ==
  /\ axiomPc = "mapped" =>
       \A k \in 1..Len(AxiomEntries) :
         AxiomEntries[k][1] \in allAxioms =>
           Includes(axiomCalls, AxiomEntries[k][1])
  /\ targetsRet.state = "fulfilled" =>
       \A k \in 1..Len(AxiomEntries) :
         (AxiomEntries[k][1] \in allAxioms /\ DistinctName(k)) =>
           /\ Has(targetsRet.value, AxiomEntries[k][2])
           /\ Get(targetsRet.value, AxiomEntries[k][2]) = axiomOuts[k][1].value
  /\ targetsRet.state = "rejected" =>
       \E k \in 1..Len(AxiomEntries) :
         axiomOuts[k] # <<>> /\ axiomOuts[k][1].how = "throw"

AxiomThrew ==
  \E k \in 1..Len(axiomOuts) :
    axiomOuts[k] # <<>> /\ axiomOuts[k][1].how = "throw"

\* runRuleset has not been called, and no rule or fix plugin invoked.
NothingDispatched ==
  /\ pc = "idle"
  /\ \A i \in 1..Len(ruleCalls) : ruleCalls[i] = <<>>
  /\ \A i \in 1..Len(fixCalls) : fixCalls[i] = <<>>

C14_LintNeverThrows ==
  /\ report.state # "rejected"
  /\ lintPc = "done" => report.state = "fulfilled"

\* The configuration could not be read or parsed, or the schema rejects it.
ConfigFailed ==
  \/ fileOuts # <<>> /\ fileOuts[1].how = "throw"
  \/ /\ lintPc \notin {"start", "readFile", "validateConfig"}
     /\ ~SchemaAccepts(lintRuleset)

\* C15 (as claimed): when the configuration is unreadable, unparseable or
\* rejected by the schema, lint returns a report with errored = true,
\* passed = false, an errMsg, no results and no targets, and no axiom, rule
\* or fix plugin is invoked.
C15_ConfigFailureReported ==
  ConfigFailed =>
    /\ report.state = "fulfilled"
    /\ report.value.errored = TRUE
    /\ report.value.passed = FALSE
    /\ "errMsg" \in DOMAIN report.value
    /\ report.value.results = <<>>
    /\ report.value.targets = EmptyObject
    /\ axiomPc = "idle" /\ axiomCalls = <<>>
    /\ NothingDispatched

\* C20 (as claimed): when lint runs a valid configuration without axioms,
\* no rule is IGNORED for a condition, and every rule of a registered type
\* that is not "off" reaches its rule plugin.
C20_NoAxiomsNoFiltering ==
  ( /\ lintPc = "runRuleset" /\ pc = "mapped"
    /\ SchemaAccepts(lintRuleset)
    /\ "axioms" \notin DOMAIN lintRuleset ) =>
    \A i \in Rules :
      ruleset[i].level # "off" =>
        /\ ~IsIgnored(results[i])
        /\ ruleset[i].ruleType \in allRules => ruleCalls[i] # <<>>

\* lint has called runRuleset for a valid configuration without axioms.
DispatchedWithoutAxioms ==
  /\ lintPc = "runRuleset"
  /\ SchemaAccepts(lintRuleset)
  /\ "axioms" \notin DOMAIN lintRuleset

\* C20 (amended): when lint runs a valid configuration without axioms, it
\* passes runRuleset an empty axiom map, so filtering is active with no
\* token: every rule that is not "off" and has conditions is IGNORED, its
\* reason listing all of them, and no plugin is invoked for it; the rules
\* of a registered type without conditions reach their rule plugin.
C20_NoAxiomsEmptyMap ==
  DispatchedWithoutAxioms =>
    /\ targets = ObjectTargets(EmptyObject)
    /\ pc = "mapped" =>
         \A i \in Rules :
           ruleset[i].level # "off" =>
             IF ruleset[i].where # <<>>
             THEN /\ IsIgnored(results[i])
                  /\ results[i].value.runMessage =
                       "ignored due to unsatisfied condition(s): "
                         \o QuotedList(ruleset[i].where)
                  /\ ruleCalls[i] = <<>> /\ fixCalls[i] = <<>>
             ELSE ruleset[i].ruleType \in allRules => ruleCalls[i] # <<>>

\* C20 witness: lint has returned its report for a configuration without
\* axioms, one rule IGNORED on its condition and one rule run.
C20_Witness ==
  /\ DispatchedWithoutAxioms
  /\ report.state = "fulfilled"
  /\ \E i, j \in Rules :
       /\ ruleset[i].level # "off" /\ ruleset[i].where # <<>>
       /\ report.value.results[i].status = "IGNORED"
       /\ ruleOuts[j] # <<>>

\* lint has gone through parseConfig.
Parsed == lintPc \notin {"start", "readFile", "validateConfig"}

\* The descriptor of entry k of the `rules` object of a version 2
\* configuration has the fields of the entry.
DescribesEntry(descriptor, entry) ==
  LET cfg == entry[2] IN
    /\ descriptor.name = entry[1]
    /\ descriptor.level = cfg.level
    /\ descriptor.where = cfg.where
    /\ descriptor.ruleType = cfg.rule.type
    /\ descriptor.ruleConfig = cfg.rule.options
    /\ IF "fix" \in DOMAIN cfg
       THEN /\ "fixType" \in DOMAIN descriptor
            /\ descriptor.fixType = cfg.fix.type
            /\ "options" \in DOMAIN cfg.fix =>
                 /\ "fixConfig" \in DOMAIN descriptor
                 /\ descriptor.fixConfig = cfg.fix.options
       ELSE "fixType" \notin DOMAIN descriptor
              /\ "fixConfig" \notin DOMAIN descriptor

\* C16 (as claimed): for a version 2 configuration parseConfig returns one
\* descriptor per entry of `rules`, in the order in which the entries were
\* inserted, each with the name, level, where, rule type and rule options of
\* its entry and with the type and options of the entry's fix, if any.
C16_OnePerEntryInOrder ==
  (Parsed /\ "version" \in DOMAIN lintRuleset) =>
    /\ lintPc = "runRuleset"
    /\ Len(configParsed) = Len(lintRuleset.rules)
    /\ \A k \in 1..Len(configParsed) :
         DescribesEntry(configParsed[k], lintRuleset.rules[k])

\* The descriptor of a rule of a legacy condition group, from the pieces of
\* its key: name, ":", type, or the name alone.
LegacyDescriptor(where, key, configray) ==
  [name |-> Pieces[key][1],
   level |-> configray[1],
   where |-> IF where = "all" THEN <<>> ELSE <<where>>,
   ruleType |-> IF Len(Pieces[key]) = 3 THEN Pieces[key][3] ELSE Pieces[key][1],
   ruleConfig |-> IF Len(configray) = 2 THEN configray[2] ELSE EmptyObject]

\* C17 (as claimed): for a legacy configuration, with or without condition
\* groups, parseConfig returns the descriptors of all the rules of all the
\* groups, group by group and rule by rule: where = [] for the group `all`
\* and [group key] otherwise, the name and the rule type from the key, and
\* options = {} when none are given.
C17_LegacyFlattened ==
  (Parsed /\ "version" \notin DOMAIN lintRuleset) =>
    /\ lintPc = "runRuleset"
    /\ report.state # "rejected"
    /\ configParsed =
         Flatten([g \in 1..Len(lintRuleset.rules) |->
                    [k \in 1..Len(lintRuleset.rules[g][2]) |->
                       LegacyDescriptor(lintRuleset.rules[g][1],
                                        lintRuleset.rules[g][2][k][1],
                                        lintRuleset.rules[g][2][k][2])]])

\* C21: runRuleset puts no barrier between the rules' lint and their fixes:
\* whatever the other rules are doing, the callback of a rule whose plugin
\* runs can go on as soon as that plugin settles, to the call of its fix
\* too; and a fix that runs waited for the plugin of its own rule only.
C21_NoBarrier ==
  pc = "mapped" =>
    \A i \in Rules :
      /\ results[i].kind = "awaitRule" =>
           \A out \in RuleOutcomes : ENABLED RuleSettles(i, out)
      /\ FixRunning(i) => ruleOuts[i] # <<>>

\* C21 witness: the fix plugin of rule A, not a dry run, is executing while
\* the rule plugin of rule B has started and not completed.
C21_Witness ==
  /\ dryRun = FALSE
  /\ \E a, b \in Rules :
       /\ a # b
       /\ FixRunning(a) /\ fixCalls[a][1].dryRun = FALSE
       /\ RuleRunning(b) /\ results[b].kind = "awaitRule"

====
